---------------------------- MODULE Spec2Model ----------------------------
(***************************************************************************)
(* A model of psd_tools2/psd/engine_data.py: the EngineData tokenizer, the *)
(* Dict/List decoders, the element writers and the Dict access surface.    *)
(*                                                                         *)
(* A byte is a string: a printable byte is its own character ("<", "a",    *)
(* " ", "\n", "\t", "\\"), and the three non-printable bytes the format    *)
(* uses are "x00", "xFE" and "xFF".  A buffer is a sequence of bytes.      *)
(* A text (the value of a String) is a sequence of UTF-16 code units, each *)
(* a pair <<high byte, low byte>>; the model's texts hold no surrogates.   *)
(***************************************************************************)
EXTENDS Integers, Sequences, FiniteSets, TLC

(***************************************************************************)
(* Byte helpers.                                                           *)
(***************************************************************************)
DigitChars == <<"0", "1", "2", "3", "4", "5", "6", "7", "8", "9">>

Digits == {DigitChars[i] : i \in 1..10}

Letters ==
    {"a", "b", "c", "d", "e", "f", "g", "h", "i", "j", "k", "l", "m",
     "n", "o", "p", "q", "r", "s", "t", "u", "v", "w", "x", "y", "z",
     "A", "B", "C", "D", "E", "F", "G", "H", "I", "J", "K", "L", "M",
     "N", "O", "P", "Q", "R", "S", "T", "U", "V", "W", "X", "Y", "Z"}

Alnum == Letters \cup Digits

Min(S) == CHOOSE m \in S : \A n \in S : m <= n

StartsWith(s, p) == Len(s) >= Len(p) /\ SubSeq(s, 1, Len(p)) = p

Drop(s, n) == SubSeq(s, n + 1, Len(s))

AllIn(s, S) == \A i \in 1..Len(s) : s[i] \in S

RECURSIVE Flatten(_)
Flatten(ss) == IF ss = <<>> THEN <<>> ELSE Head(ss) \o Flatten(Tail(ss))

RECURSIVE Repeat(_, _)
Repeat(s, n) == IF n <= 0 THEN <<>> ELSE s \o Repeat(s, n - 1)

\* bytes.replace(old, new): every non-overlapping occurrence, left to right.
RECURSIVE Replace(_, _, _)
Replace(s, old, new) ==
    IF Len(s) < Len(old) THEN s
    ELSE IF StartsWith(s, old) THEN new \o Replace(Drop(s, Len(old)), old, new)
    ELSE <<Head(s)>> \o Replace(Tail(s), old, new)

Contains(s, b) == \E i \in 1..Len(s) : s[i] = b

(***************************************************************************)
(* EngineToken: the lexical classes, in the order the Enum lists them.     *)
(* Each pattern is anchored with ^ and $; Python's $ also matches just     *)
(* before a newline that ends the token, which AtEnd states.               *)
(***************************************************************************)
EngineToken ==
    <<"ARRAY_END", "ARRAY_START", "BOOLEAN", "DICT_END", "DICT_START", "NOOP",
      "NUMBER", "NUMBER_WITH_DECIMAL", "PROPERTY", "STRING", "UNKNOWN_TAG">>

Sign(t) == IF t # <<>> /\ Head(t) = "-" THEN Tail(t) ELSE t

ReArrayEnd(t) == t = <<"]">>

ReArrayStart(t) == t = <<"[">>

ReBoolean(t) == t = <<"t", "r", "u", "e">> \/ t = <<"f", "a", "l", "s", "e">>

ReDictEndStrict(t) == t = <<">", ">">>

\* ^>>(\x00)*$
ReDictEnd(t) == StartsWith(t, <<">", ">">>) /\ AllIn(Drop(t, 2), {"x00"})

ReDictStart(t) == t = <<"<", "<">>

ReNoop(t) == t = <<>>

\* ^-?\d+$
ReNumber(t) == Sign(t) # <<>> /\ AllIn(Sign(t), Digits)

\* ^-?\d*\.\d+$
ReNumberWithDecimal(t) ==
    \E k \in 1..Len(Sign(t)) :
        /\ Sign(t)[k] = "."
        /\ AllIn(SubSeq(Sign(t), 1, k - 1), Digits)
        /\ k < Len(Sign(t))
        /\ AllIn(Drop(Sign(t), k), Digits)

\* ^\/[a-zA-Z0-9]+$
ReProperty(t) == Len(t) >= 2 /\ Head(t) = "/" /\ AllIn(Tail(t), Alnum)

\* ^\((\xfe\xff([^\)]|\\\))*)\)$ : between the marker and the last byte every
\* ")" is the second byte of a backslash-paren pair.
ReString(t) ==
    /\ Len(t) >= 4
    /\ StartsWith(t, <<"(", "xFE", "xFF">>)
    /\ t[Len(t)] = ")"
    /\ \A j \in 4..(Len(t) - 1) : t[j] = ")" => (j > 4 /\ t[j - 1] = "\\")

\* ^\([a-zA-Z0-9]+\)$
ReUnknownTag(t) ==
    /\ Len(t) >= 3
    /\ Head(t) = "("
    /\ t[Len(t)] = ")"
    /\ AllIn(SubSeq(t, 2, Len(t) - 1), Alnum)

Pattern(type, t) ==
    CASE type = "ARRAY_END" -> ReArrayEnd(t)
      [] type = "ARRAY_START" -> ReArrayStart(t)
      [] type = "BOOLEAN" -> ReBoolean(t)
      [] type = "DICT_END" -> ReDictEnd(t)
      [] type = "DICT_START" -> ReDictStart(t)
      [] type = "NOOP" -> ReNoop(t)
      [] type = "NUMBER" -> ReNumber(t)
      [] type = "NUMBER_WITH_DECIMAL" -> ReNumberWithDecimal(t)
      [] type = "PROPERTY" -> ReProperty(t)
      [] type = "STRING" -> ReString(t)
      [] type = "UNKNOWN_TAG" -> ReUnknownTag(t)

AtEnd(type, t) ==
    \/ Pattern(type, t)
    \/ t # <<>> /\ t[Len(t)] = "\n" /\ Pattern(type, SubSeq(t, 1, Len(t) - 1))

Matches(type, t) == AtEnd(type, t)

MatchingTypes(t) == {i \in 1..Len(EngineToken) : Matches(EngineToken[i], t)}

\* for token_type in EngineToken: if token_type.value.search(token): return
Classify(t) ==
    LET M == MatchingTypes(t)
    IN  IF M = {} THEN "NONE" ELSE EngineToken[Min(M)]

(***************************************************************************)
(* Tokenizer.                                                              *)
(***************************************************************************)
IsDividerNoTab(b) == b \in {" ", "\n"}

\* DIVIDER = [ \n\t]+
IsDivider(b) == b \in {" ", "\n", "\t"}

UTF16_START == <<"(", "xFE", "xFF">>

\* UTF16_END = [^\\]\) searched from the start of the buffer: match.end(),
\* the number of bytes up to and including the ")", or 0 when nothing matches.
Utf16EndSearch(data) ==
    LET I == {i \in 1..(Len(data) - 1) : data[i] # "\\" /\ data[i + 1] = ")"}
    IN  IF I = {} THEN 0 ELSE Min(I) + 1

\* DIVIDER.search: match.start() and match.end() as byte counts, or none.
DividerSearch(data) ==
    LET I == {i \in 1..Len(data) : IsDivider(data[i])}
        s == Min(I)
        E == {j \in s..Len(data) : j = Len(data) \/ ~IsDivider(data[j + 1])}
    IN  IF I = {} THEN [found |-> FALSE, start |-> 0, end |-> 0]
        ELSE [found |-> TRUE, start |-> s - 1, end |-> Min(E)]

Stop == [kind |-> "stop", token |-> <<>>, type |-> "NONE", data |-> <<>>]

Fail(why, token, data) ==
    [kind |-> why, token |-> token, type |-> "NONE", data |-> data]

Yield(token, data) ==
    LET type == Classify(token)
    IN  IF type = "NONE" THEN Fail("UnknownToken", token, data)
        ELSE [kind |-> "token", token |-> token, type |-> type, data |-> data]

\* The UTF-16 branch of __next__: the token ends at match.end() and the
\* buffer restarts at match.end() + 1.
StringScan(data) ==
    LET e == Utf16EndSearch(data)
    IN  IF e = 0 THEN Fail("InvalidToken", data, data)
        ELSE Yield(SubSeq(data, 1, e), Drop(data, e + 1))

\* Tokenizer.__next__ on self.data = data: what it returns or raises, and
\* self.data afterwards.
RECURSIVE TokNext(_)
TokNext(data) ==
    IF Len(data) = 0 THEN Stop
    ELSE IF StartsWith(data, UTF16_START) THEN StringScan(data)
    ELSE LET m == DividerSearch(data)
         IN  IF ~m.found THEN Yield(data, <<>>)
             ELSE IF m.start = 0 THEN TokNext(Drop(data, m.end))
             ELSE Yield(SubSeq(data, 1, m.start), Drop(data, m.end))

\* for token, token_type in tokenizer: every pair the iteration yields, and
\* how it ends ("stop", or the error raised).
RECURSIVE Tokens(_)
Tokens(data) ==
    LET r == TokNext(data)
    IN  IF r.kind # "token" THEN [toks |-> <<>>, end |-> r.kind]
        ELSE LET rest == Tokens(r.data)
             IN  [toks |-> <<<<r.token, r.type>>>> \o rest.toks,
                  end |-> rest.end]

(***************************************************************************)
(* Elements.  A Dict is an ordered sequence of entries with distinct keys, *)
(* every key a Property; a List is a sequence of elements.  A Float is a   *)
(* decimal number d1.d2...dn * 10^exp: digits holds d1..dn (no leading and *)
(* no trailing zero; empty for zero).  The model's floats have at most 12  *)
(* significant digits, so '%.12g' prints them without rounding.            *)
(***************************************************************************)
String(text) == [kind |-> "String", value |-> text]

Bool(b) == [kind |-> "Bool", value |-> b]

Integer(n) == [kind |-> "Integer", value |-> n]

Float(neg, digits, exp) ==
    [kind |-> "Float", neg |-> neg, digits |-> digits, exp |-> exp]

Property(name) == [kind |-> "Property", value |-> name]

Tag(raw) == [kind |-> "Tag", value |-> raw]

Dict(items) == [kind |-> "Dict", items |-> items]

List(items) == [kind |-> "List", items |-> items]

\* What a frombytes or a write returns (err = "") or raises (err names it).
Ok(v) == [err |-> "", value |-> v]

Raise(e) == [err |-> e, value |-> <<>>]

(***************************************************************************)
(* Leaf decoders (frombytes).                                              *)
(***************************************************************************)
RECURSIVE Pairs(_)
Pairs(bs) ==
    IF Len(bs) < 2 THEN <<>>
    ELSE <<<<bs[1], bs[2]>>>> \o Pairs(Drop(bs, 2))

\* bytes.decode('utf-16') of bytes that start with the big-endian marker.
DecodeUtf16(bs) ==
    LET body == Drop(bs, 2)
    IN  IF Len(body) % 2 = 1 THEN Raise("UnicodeDecodeError")
        ELSE Ok(Pairs(body))

StringFrombytes(data) ==
    LET value == Replace(SubSeq(data, 2, Len(data) - 1), <<"\\">>, <<>>)
        text == DecodeUtf16(value)
    IN  IF text.err # "" THEN text ELSE Ok(String(text.value))

BoolFrombytes(data) == Ok(Bool(data = <<"t", "r", "u", "e">>))

DigitValue(c) == CHOOSE i \in 0..9 : DigitChars[i + 1] = c

RECURSIVE DigitsToNat(_)
DigitsToNat(ds) ==
    IF ds = <<>> THEN 0
    ELSE 10 * DigitsToNat(SubSeq(ds, 1, Len(ds) - 1)) + DigitValue(ds[Len(ds)])

\* int(data)
IntegerFrombytes(data) ==
    Ok(Integer(IF Head(data) = "-" THEN 0 - DigitsToNat(Tail(data))
               ELSE DigitsToNat(data)))

RECURSIVE StripLeadingZeros(_)
StripLeadingZeros(ds) ==
    IF ds # <<>> /\ Head(ds) = "0" THEN StripLeadingZeros(Tail(ds)) ELSE ds

RECURSIVE StripTrailingZeros(_)
StripTrailingZeros(ds) ==
    IF ds # <<>> /\ ds[Len(ds)] = "0"
    THEN StripTrailingZeros(SubSeq(ds, 1, Len(ds) - 1)) ELSE ds

\* float(data) for a token of the form -?\d*\.\d+
FloatFrombytes(data) ==
    LET body == Sign(data)
        dot == CHOOSE k \in 1..Len(body) : body[k] = "."
        all == SubSeq(body, 1, dot - 1) \o Drop(body, dot)
        sig == StripLeadingZeros(all)
        lead == Len(all) - Len(sig)
    IN  Ok(Float(Head(data) = "-", StripTrailingZeros(sig),
                 IF sig = <<>> THEN 0 ELSE dot - 2 - lead))

\* data.replace(b'/', b'').decode('macroman')
PropertyFrombytes(data) == Ok(Property(Replace(data, <<"/">>, <<>>)))

\* Tag(fp.read())
TagFrombytes(data) == Ok(Tag(data))

\* TOKEN_CLASSES.get(token_type) of a leaf class, applied to the token.
LeafFrombytes(type, token) ==
    CASE type = "BOOLEAN" -> BoolFrombytes(token)
      [] type = "NUMBER" -> IntegerFrombytes(token)
      [] type = "NUMBER_WITH_DECIMAL" -> FloatFrombytes(token)
      [] type = "PROPERTY" -> PropertyFrombytes(token)
      [] type = "STRING" -> StringFrombytes(token)
      [] type = "UNKNOWN_TAG" -> TagFrombytes(token)

\* The classes @register puts in TOKEN_CLASSES.
Registered ==
    {"DICT_START", "ARRAY_START", "STRING", "BOOLEAN", "NUMBER",
     "NUMBER_WITH_DECIMAL", "PROPERTY", "UNKNOWN_TAG"}

ContainerStart == {"ARRAY_START", "DICT_START"}

(***************************************************************************)
(* Leaf writers (write).                                                   *)
(***************************************************************************)
\* value.encode('utf-16-be'), then ")" and "(" escaped, between "(" BOM ")".
StringWrite(text) ==
    LET raw == Flatten(text)
        esc == Replace(Replace(raw, <<")">>, <<"\\", ")">>),
                       <<"(">>, <<"\\", "(">>)
    IN  Ok(<<"(", "xFE", "xFF">> \o esc \o <<")">>)

BoolWrite(b) ==
    Ok(IF b THEN <<"t", "r", "u", "e">> ELSE <<"f", "a", "l", "s", "e">>)

RECURSIVE NatToDigits(_)
NatToDigits(n) ==
    IF n < 10 THEN <<DigitChars[n + 1]>>
    ELSE NatToDigits(n \div 10) \o <<DigitChars[(n % 10) + 1]>>

\* b'%d' % value
IntegerWrite(n) ==
    Ok(IF n < 0 THEN <<"-">> \o NatToDigits(0 - n) ELSE NatToDigits(n))

\* b'%.12g' % value
FormatG12(f) ==
    LET sign == IF f.neg THEN <<"-">> ELSE <<>>
        n == Len(f.digits)
        x == f.exp
        absx == IF x < 0 THEN 0 - x ELSE x
        expo == <<"e", IF x < 0 THEN "-" ELSE "+">>
                \o (IF absx < 10 THEN <<"0">> ELSE <<>>) \o NatToDigits(absx)
    IN  IF n = 0 THEN sign \o <<"0">>
        ELSE IF x < 0 - 4 \/ x >= 12
        THEN sign \o <<f.digits[1]>>
             \o (IF n > 1 THEN <<".">> \o Drop(f.digits, 1) ELSE <<>>) \o expo
        ELSE IF x < 0
        THEN sign \o <<"0", ".">> \o Repeat(<<"0">>, absx - 1) \o f.digits
        ELSE IF n <= x + 1
        THEN sign \o f.digits \o Repeat(<<"0">>, x + 1 - n)
        ELSE sign \o SubSeq(f.digits, 1, x + 1) \o <<".">>
             \o Drop(f.digits, x + 1)

\* 0.0 < abs(value) < 1.0
IsFraction(f) == f.digits # <<>> /\ f.exp < 0

FloatWrite(f) ==
    LET g == FormatG12(f)
        value == IF Contains(g, ".") THEN g ELSE g \o <<".", "0">>
    IN  Ok(IF IsFraction(f) THEN Replace(value, <<"0", ".">>, <<".">>)
           ELSE value)

\* b'/' + value.encode('macroman')
PropertyWrite(name) == Ok(<<"/">> \o name)

\* write_bytes(fp, value): no name "value" is bound there.
TagWrite(raw) == Raise("NameError")

\* item.write(fp)
LeafWrite(e) ==
    CASE e.kind = "String" -> StringWrite(e.value)
      [] e.kind = "Bool" -> BoolWrite(e.value)
      [] e.kind = "Integer" -> IntegerWrite(e.value)
      [] e.kind = "Float" -> FloatWrite(e)
      [] e.kind = "Property" -> PropertyWrite(e.value)
      [] e.kind = "Tag" -> TagWrite(e.value)

\* The write methods whose signature has an indent parameter.
AcceptsIndent == {"Dict", "List", "Bool", "Integer"}

(***************************************************************************)
(* Container writers.  indent = None is NoIndent.                          *)
(***************************************************************************)
NoIndent == -1

\* Dict._write_indent / List._write_indent
WriteIndent(indent) ==
    IF indent = NoIndent THEN <<" ">> ELSE Repeat(<<"\t">>, indent)

\* Dict._write_newline / List._write_newline
WriteNewline(indent) == IF indent = NoIndent THEN <<>> ELSE <<"\n">>

IsDict(e) == e.kind = "Dict"

IsList(e) == e.kind = "List"

\* Sequential writes to fp: the first error raised ends the whole write.
Then(a, b) ==
    IF a.err # "" THEN a
    ELSE IF b.err # "" THEN b
    ELSE Ok(a.value \o b.value)

RECURSIVE DictWrite(_, _, _)
RECURSIVE ListWrite(_, _)
RECURSIVE DictEntriesWrite(_, _)
RECURSIVE ListItemsInline(_)
RECURSIVE ListItemsIndented(_, _)

\* item.write(fp, indent=indent) in the indented branch of List.write
ItemWriteIndented(item, indent) ==
    IF item.kind \notin AcceptsIndent THEN Raise("TypeError")
    ELSE IF IsDict(item) THEN DictWrite(item, indent, TRUE)
    ELSE IF IsList(item) THEN ListWrite(item, indent)
    ELSE LeafWrite(item)

\* The value part of one entry of Dict.write.
ValueWrite(value, inner_indent) ==
    IF IsDict(value) THEN DictWrite(value, inner_indent, TRUE)
    ELSE Then(Ok(<<" ">>),
              IF IsList(value)
              THEN IF Len(value.items) > 0 /\ IsDict(value.items[1])
                   THEN ListWrite(value, inner_indent)
                   ELSE ListWrite(value, NoIndent)
              ELSE LeafWrite(value))

\* for key in self: ... of Dict.write
DictEntriesWrite(items, indent) ==
    IF items = <<>> THEN Ok(<<>>)
    ELSE LET inner_indent == IF indent = NoIndent THEN NoIndent ELSE indent + 1
             e == Head(items)
         IN  Then(Then(Then(Then(Ok(WriteIndent(inner_indent)),
                                 PropertyWrite(e.key.value)),
                            ValueWrite(e.value, inner_indent)),
                       Ok(WriteNewline(indent))),
                  DictEntriesWrite(Tail(items), indent))

\* Dict.write(fp, indent, write_container)
DictWrite(d, indent, write_container) ==
    LET open == (IF indent = 0 THEN WriteNewline(indent) ELSE <<>>)
                \o WriteNewline(indent) \o WriteIndent(indent)
                \o <<"<", "<">> \o WriteNewline(indent)
        close == WriteIndent(indent) \o <<">", ">">>
    IN  IF write_container
        THEN Then(Then(Ok(open), DictEntriesWrite(d.items, indent)), Ok(close))
        ELSE DictEntriesWrite(d.items, indent)

\* EngineData2.write(fp): indent=None, write_container=False
EngineData2Write(d) == DictWrite(d, NoIndent, FALSE)

ListItemsInline(items) ==
    IF items = <<>> THEN Ok(<<>>)
    ELSE Then(IF IsDict(Head(items)) THEN DictWrite(Head(items), NoIndent, TRUE)
              ELSE Then(Ok(<<" ">>),
                        IF IsList(Head(items))
                        THEN ListWrite(Head(items), NoIndent)
                        ELSE LeafWrite(Head(items))),
              ListItemsInline(Tail(items)))

ListItemsIndented(items, indent) ==
    IF items = <<>> THEN Ok(<<>>)
    ELSE Then(ItemWriteIndented(Head(items), indent),
              ListItemsIndented(Tail(items), indent))

\* List.write(fp, indent)
ListWrite(l, indent) ==
    IF indent = NoIndent
    THEN Then(Then(Ok(<<"[">>), ListItemsInline(l.items)), Ok(<<" ", "]">>))
    ELSE Then(Then(Ok(<<"[">>), ListItemsIndented(l.items, indent)),
              Ok(WriteNewline(indent) \o WriteIndent(indent) \o <<"]">>))

(***************************************************************************)
(* The ordered mapping under a Dict (DictElement): entries in insertion    *)
(* order, one per key; the keys it is given are compared as they are.      *)
(***************************************************************************)
IndexOf(items, key) ==
    LET I == {i \in 1..Len(items) : items[i].key = key}
    IN  IF I = {} THEN 0 ELSE Min(I)

BaseSetItem(items, key, value) ==
    IF IndexOf(items, key) = 0
    THEN Append(items, [key |-> key, value |-> value])
    ELSE [items EXCEPT ![IndexOf(items, key)].value = value]

BaseDelItem(items, key) ==
    LET i == IndexOf(items, key)
    IN  SubSeq(items, 1, i - 1) \o Drop(items, i)

\* A plain identifier string, as a caller passes it for a key.
Str(name) == [kind |-> "str", value |-> name]

IsProperty(key) == key.kind = "Property"

\* key if isinstance(key, Property) else Property(key)
Wrap(key) == IF IsProperty(key) THEN key ELSE Property(key.value)

(***************************************************************************)
(* Dict.frombytes and List.frombytes over one shared Tokenizer.  A decoder *)
(* is a record: data (Tokenizer.data), stack (one frame per frombytes call *)
(* in progress, innermost last), last (the pair next() returned last, and  *)
(* where it was read) and result.  A frame holds the container built so    *)
(* far ("self") and, for a Dict that has read a key, that key.             *)
(***************************************************************************)
NoKey == <<>>

Frame(kind, items, key) == [kind |-> kind, items |-> items, key |-> key]

NoResult == [kind |-> "none"]

TreeResult(v) == [kind |-> "tree", value |-> v]

ErrorResult(e) == [kind |-> "error", why |-> e]

NoToken == [pos |-> "none", type |-> "NONE", token |-> <<>>]

Read(pos, r) == [pos |-> pos, type |-> r.type, token |-> r.token]

\* Dict.frombytes(data) / EngineData2.frombytes(data) when it starts.
InitM(data) ==
    [data |-> data, stack |-> <<Frame("Dict", <<>>, NoKey)>>,
     last |-> NoToken, result |-> NoResult]

Top(m) == m.stack[Len(m.stack)]

Caller(m) == SubSeq(m.stack, 1, Len(m.stack) - 1)

FrameValue(f) == IF f.kind = "Dict" THEN Dict(f.items) ELSE List(f.items)

\* self[key] = value in a Dict frame, self.append(value) in a List frame.
Store(f, value) ==
    IF f.kind = "Dict"
    THEN Frame("Dict", BaseSetItem(f.items, Wrap(f.key[1]), value), NoKey)
    ELSE Frame("List", Append(f.items, value), NoKey)

\* return self: the caller stores the value, or the decode ends with it.
Return(m, data, last) ==
    IF Len(m.stack) = 1
    THEN [data |-> data, stack |-> <<>>, last |-> last,
          result |-> TreeResult(FrameValue(Top(m)))]
    ELSE LET c == Caller(m)
         IN  [data |-> data,
              stack |-> [c EXCEPT ![Len(c)] = Store(c[Len(c)], FrameValue(Top(m)))],
              last |-> last, result |-> NoResult]

Abort(m, data, last, e) ==
    [data |-> data, stack |-> m.stack, last |-> last, result |-> ErrorResult(e)]

Continue(m, data, last, stack) ==
    [data |-> data, stack |-> stack, last |-> last, result |-> NoResult]

ReplaceTop(m, f) == [m.stack EXCEPT ![Len(m.stack)] = f]

Push(m, type) ==
    Append(m.stack,
           Frame(IF type = "DICT_START" THEN "Dict" ELSE "List", <<>>, NoKey))

\* kls.frombytes(token) and the store of its value.
StoreLeaf(m, r, last) ==
    LET v == LeafFrombytes(r.type, r.token)
    IN  IF v.err # "" THEN Abort(m, r.data, last, v.err)
        ELSE Continue(m, r.data, last, ReplaceTop(m, Store(Top(m), v.value)))

DictKeyStepRecurse(m) ==
    LET r == TokNext(m.data)
        last == Read("key", r)
    IN  IF r.kind = "stop" THEN Return(m, r.data, last)
        ELSE IF r.kind # "token" THEN Abort(m, r.data, last, r.kind)
        ELSE IF r.type = "PROPERTY"
        THEN Continue(m, r.data, last,
                 ReplaceTop(m, Frame("Dict", Top(m).items,
                                     <<PropertyFrombytes(r.token).value>>)))
        ELSE IF r.type = "DICT_END" THEN Return(m, r.data, last)
        ELSE IF r.type \in ContainerStart
        THEN Continue(m, r.data, last, Push(m, r.type))
        ELSE Continue(m, r.data, last, m.stack)

DictKeyStepSkipUnknown(m) ==
    LET r == TokNext(m.data)
        last == Read("key", r)
    IN  IF r.kind = "stop" THEN Return(m, r.data, last)
        ELSE IF r.kind = "UnknownToken" THEN Continue(m, r.data, last, m.stack)
        ELSE IF r.kind # "token" THEN Abort(m, r.data, last, r.kind)
        ELSE IF r.type = "PROPERTY"
        THEN Continue(m, r.data, last,
                 ReplaceTop(m, Frame("Dict", Top(m).items,
                                     <<PropertyFrombytes(r.token).value>>)))
        ELSE IF r.type = "DICT_END" THEN Return(m, r.data, last)
        ELSE Continue(m, r.data, last, m.stack)

\* One turn of "for k_token, k_token_type in tokenizer" in Dict.frombytes,
\* up to the key: the loop's next(), then the branch on k_token_type.
DictKeyStep(m) ==
    LET r == TokNext(m.data)
        last == Read("key", r)
    IN  IF r.kind = "stop" THEN Return(m, r.data, last)
        ELSE IF r.kind # "token" THEN Abort(m, r.data, last, r.kind)
        ELSE IF r.type = "PROPERTY"
        THEN Continue(m, r.data, last,
                 ReplaceTop(m, Frame("Dict", Top(m).items,
                                     <<PropertyFrombytes(r.token).value>>)))
        ELSE IF r.type = "DICT_END" THEN Return(m, r.data, last)
        ELSE Continue(m, r.data, last, m.stack)

\* The rest of that turn after a key: next(tokenizer) and the value.
DictValueStep(m) ==
    LET r == TokNext(m.data)
        last == Read("value", r)
    IN  IF r.kind = "stop" THEN Abort(m, r.data, last, "StopIteration")
        ELSE IF r.kind # "token" THEN Abort(m, r.data, last, r.kind)
        ELSE IF r.type \in ContainerStart
        THEN Continue(m, r.data, last, Push(m, r.type))
        ELSE IF r.type \in Registered THEN StoreLeaf(m, r, last)
        ELSE Abort(m, r.data, last, "InvalidToken")

\* One turn of "for token, token_type in tokenizer" in List.frombytes.
ListItemStep(m) ==
    LET r == TokNext(m.data)
        last == Read("item", r)
    IN  IF r.kind = "stop" THEN Return(m, r.data, last)
        ELSE IF r.kind # "token" THEN Abort(m, r.data, last, r.kind)
        ELSE IF r.type = "ARRAY_END" THEN Return(m, r.data, last)
        ELSE IF r.type \in ContainerStart
        THEN Continue(m, r.data, last, Push(m, r.type))
        ELSE IF r.type \notin Registered
        THEN Abort(m, r.data, last, "AttributeError")
        ELSE StoreLeaf(m, r, last)

AtDictKey(m) ==
    m.result = NoResult /\ Top(m).kind = "Dict" /\ Top(m).key = NoKey

AtDictValue(m) ==
    m.result = NoResult /\ Top(m).kind = "Dict" /\ Top(m).key # NoKey

AtListItem(m) == m.result = NoResult /\ Top(m).kind = "List"

StepM(m) ==
    IF AtDictKey(m) THEN DictKeyStep(m)
    ELSE IF AtDictValue(m) THEN DictValueStep(m)
    ELSE ListItemStep(m)

RECURSIVE Run(_)
Run(m) == IF m.result # NoResult THEN m ELSE Run(StepM(m))

\* Dict.frombytes(data): the tree it returns or the error it raises.
Decode(data) == Run(InitM(data)).result

(***************************************************************************)
(* State.                                                                  *)
(*   Decoding:  pieces, input, input2, phase, dec                          *)
(*   Encoding:  tree, out, back, again                                     *)
(*   Access:    items, ret                                                 *)
(***************************************************************************)
VARIABLES
    pieces,  \* the tokens the input buffer was assembled from, in order
    input,   \* the buffer given to Dict.frombytes
    input2,  \* the same tokens separated by other runs of whitespace
    phase,   \* "build": the buffer is being assembled; "run": it is decoded
    dec,     \* the decoder: Tokenizer.data, the frombytes frames, the result
    tree,    \* the root Dict an encode session works on
    out,     \* what write returned or raised for tree
    back,    \* what frombytes returned or raised for the bytes of out
    again,   \* what write returned or raised for the tree of back
    items,   \* the entries of the Dict the access surface works on
    ret      \* what the last access operation returned or raised

vars == <<pieces, input, input2, phase, dec, tree, out, back, again, items, ret>>

decodeVars == <<pieces, input, input2, phase, dec>>

encodeVars == <<tree, out, back, again>>

accessVars == <<items, ret>>

Idle == [kind |-> "idle"]

(***************************************************************************)
(* Decoding a buffer.  The buffer is a sequence of at most MaxPieces       *)
(* pieces of TokenPool; input separates them by one run of whitespace,     *)
(* input2 by another and adds leading and trailing whitespace.             *)
(***************************************************************************)
MaxPieces == 4

MaxNul == 2

DictEndToken(n) == <<">", ">">> \o Repeat(<<"x00">>, n)

StringA == <<"(", "xFE", "xFF", "x00", "a", ")">>

\* The text " )" as String.write renders it: a space byte inside the
\* literal and an escaped close-paren.
StringEsc == <<"(", "xFE", "xFF", "x00", " ", "x00", "\\", ")", ")">>

Unknown == <<"@">>

TokenPool ==
    <<<<"<", "<">>, DictEndToken(0), DictEndToken(MaxNul), <<"[">>, <<"]">>,
      <<"/", "a">>, <<"/", "b">>, <<"1">>, StringEsc, Unknown,
      StringA \o Unknown>>

Separators == <<<<" ">>, <<"\n", "\t">>, <<"\t">>>>

Sep(i) == Separators[(i % Len(Separators)) + 1]

DecodeInit ==
    /\ pieces = <<>>
    /\ input = <<>>
    /\ input2 = <<"\n">>
    /\ phase = "build"
    /\ dec = Idle

\* One more token in the buffer handed to the decoder.
AppendPiece(p) ==
    /\ phase = "build"
    /\ Len(pieces) < MaxPieces
    /\ pieces' = Append(pieces, p)
    /\ input' = (IF pieces = <<>> THEN <<>> ELSE input \o Sep(Len(pieces)))
                \o TokenPool[p]
    /\ input2' = input2 \o TokenPool[p] \o Sep(Len(pieces) + 1)
    /\ UNCHANGED <<phase, dec>>

\* Dict.frombytes(input): tokenizer = Tokenizer(data); self = cls()
Start ==
    /\ phase = "build"
    /\ phase' = "run"
    /\ dec' = InitM(input)
    /\ UNCHANGED <<pieces, input, input2>>

Running == phase = "run" /\ dec.result = NoResult

DictKey ==
    /\ Running
    /\ AtDictKey(dec)
    /\ dec' = DictKeyStep(dec)
    /\ UNCHANGED <<pieces, input, input2, phase>>

DictValue ==
    /\ Running
    /\ AtDictValue(dec)
    /\ dec' = DictValueStep(dec)
    /\ UNCHANGED <<pieces, input, input2, phase>>

ListItem ==
    /\ Running
    /\ AtListItem(dec)
    /\ dec' = ListItemStep(dec)
    /\ UNCHANGED <<pieces, input, input2, phase>>

EncodeIdle == tree = Idle /\ out = Idle /\ back = Idle /\ again = Idle

AccessIdle == items = <<>> /\ ret = Idle

Init == DecodeInit /\ EncodeIdle /\ AccessIdle

Next ==
    \/ \E p \in 1..Len(TokenPool) : AppendPiece(p) /\ UNCHANGED <<encodeVars, accessVars>>
    \/ Start /\ UNCHANGED <<encodeVars, accessVars>>
    \/ DictKey /\ UNCHANGED <<encodeVars, accessVars>>
    \/ DictValue /\ UNCHANGED <<encodeVars, accessVars>>
    \/ ListItem /\ UNCHANGED <<encodeVars, accessVars>>

Spec == Init /\ [][Next]_vars

(***************************************************************************)
(* Properties of decoding.                                                 *)
(***************************************************************************)
Whitespace == {" ", "\n", "\t"}

RECURSIVE SkipWhitespace(_)
SkipWhitespace(d) ==
    IF d # <<>> /\ Head(d) \in Whitespace THEN SkipWhitespace(Tail(d)) ELSE d

\* The buffer that is left once token t, which opens buffer d after leading
\* whitespace, and the whitespace that follows t have been consumed.
CursorAfter(d, t) == SkipWhitespace(Drop(SkipWhitespace(d), Len(t)))

OpensWith(d, t) == StartsWith(SkipWhitespace(d), t)

\* A decoder step that reads one token in key position of a Dict.
ReadsKey == phase = "run" /\ dec.result = NoResult /\ AtDictKey(dec)

\* The Dict frame on top has returned its accumulated dict: to its caller,
\* which stored it, or as the result of the decode.
DictReturned(m, m2) ==
    IF Len(m.stack) = 1
    THEN m2.result = TreeResult(Dict(Top(m).items))
    ELSE /\ m2.result = NoResult
         /\ Len(m2.stack) = Len(m.stack) - 1
         /\ \A i \in 1..(Len(m2.stack) - 1) : m2.stack[i] = m.stack[i]
         /\ LET c == m.stack[Len(m.stack) - 1]
                c2 == m2.stack[Len(m2.stack)]
            IN  /\ c2.kind = c.kind
                /\ c2.key = NoKey
                /\ IF c.kind = "List"
                   THEN c2.items = Append(c.items, Dict(Top(m).items))
                   ELSE /\ \E i \in 1..Len(c2.items) :
                              c2.items[i] = [key |-> c.key[1],
                                             value |-> Dict(Top(m).items)]
                        /\ \A i \in 1..Len(c.items) :
                              c.items[i].key # c.key[1] => c2.items[i] = c.items[i]

IsLenientDictEnd(t) ==
    \E n \in 0..(Len(t) - 2) : t = DictEndToken(n)

C7_Classified ==
    \A n \in 0..MaxNul :
        /\ Classify(DictEndToken(n)) = "DICT_END"
        /\ \A i \in 1..Len(EngineToken) :
              Matches(EngineToken[i], DictEndToken(n)) => EngineToken[i] = "DICT_END"

C7_Returns ==
    ReadsKey /\ OpensWith(dec.data, dec'.last.token)
             /\ IsLenientDictEnd(dec'.last.token)
    => /\ DictReturned(dec, dec')
       /\ dec'.data = CursorAfter(dec.data, dec'.last.token)

C7_EndOfInput ==
    ReadsKey /\ SkipWhitespace(dec.data) = <<>>
    => DictReturned(dec, dec') /\ dec'.data = <<>>

\* C7: a token ">>" followed by zero or more x00 bytes classifies as DICT_END
\* and as nothing else; read in key position it makes Dict.frombytes return
\* the dict accumulated so far, with the shared cursor just after the token
\* (and the whitespace behind it); and end-of-input in key position returns
\* the accumulated dict too.  (The classification is checked once, at the
\* first step.)
C7_LenientTerminator ==
    [][(pieces = <<>> => C7_Classified) /\ C7_Returns /\ C7_EndOfInput]_vars

\* The nested dict of "/a << >>x00x00 /b" was closed by the padded
\* terminator, stored under /a, and the enclosing dict went on to read /b.
C7_Witness ==
    /\ phase = "run"
    /\ pieces = <<6, 1, 3, 7>>
    /\ dec.last = [pos |-> "key", type |-> "PROPERTY", token |-> <<"/", "b">>]
    /\ Len(dec.stack) = 1
    /\ dec.stack[1].items = <<[key |-> Property(<<"a">>), value |-> Dict(<<>>)]>>

Discarded ==
    {"DICT_START", "ARRAY_START", "ARRAY_END", "BOOLEAN", "NUMBER",
     "NUMBER_WITH_DECIMAL", "STRING", "UNKNOWN_TAG"}

\* One token of each discarded class.
DiscardedSamples ==
    {<<"<", "<">>, <<"[">>, <<"]">>, <<"t", "r", "u", "e">>,
     <<"f", "a", "l", "s", "e">>, <<"-", "1", "2">>, <<".", "5">>,
     <<"-", "0", ".", "2", "5">>, StringA, StringEsc, <<"(", "h", "w", "i", "d", ")">>}

C10_EveryClass ==
    /\ {Classify(t) : t \in DiscardedSamples} = Discarded
    /\ \A t \in DiscardedSamples :
          \A f \in {Frame("Dict", <<>>, NoKey),
                    Frame("Dict", <<[key |-> Property(<<"a">>), value |-> Integer(1)]>>, NoKey)} :
              LET rest == <<"/", "b", " ", "1">>
                  m == [data |-> t \o <<"\n">> \o rest, stack |-> <<f>>,
                        last |-> NoToken, result |-> NoResult]
                  m2 == DictKeyStep(m)
              IN  /\ m2.result = NoResult
                  /\ m2.stack = m.stack
                  /\ m2.data = rest

C10_Skips ==
    ReadsKey /\ dec'.last.pos = "key" /\ dec'.last.type \in Discarded
    => /\ dec'.result = NoResult
       /\ dec'.stack = dec.stack
       /\ dec'.data = TokNext(dec.data).data

C10_EndsDict ==
    ReadsKey /\ dec'.last.pos = "key" /\ dec'.last.type = "DICT_END"
    => DictReturned(dec, dec')

\* C10: in key position a classified token that is neither PROPERTY nor
\* DICT_END is discarded: no error, no new frame, the accumulated dict
\* unchanged, the next token read next; and the first DICT_END in key
\* position ends the current dict, whatever "<<" it was written for.  (The
\* sample tokens of every discarded class are tried once, at the first step.)
C10_KeyPositionDiscard ==
    [][(pieces = <<>> => C10_EveryClass) /\ C10_Skips /\ C10_EndsDict]_vars

\* "<< >> /a 1": the "<<" was discarded, so ">>" ended the root dict and the
\* entry after it was never added.
C10_Witness ==
    /\ phase = "run"
    /\ pieces = <<1, 2, 6, 8>>
    /\ dec.result = TreeResult(Dict(<<>>))
    /\ dec.last.type = "DICT_END"
    /\ dec.data # <<>>

MatchesNoClass(t) == \A i \in 1..Len(EngineToken) : ~Matches(EngineToken[i], t)

IsUnknownPiece(p) ==
    \E i \in 1..Len(TokenPool[p]) : TokenPool[p][i] = "@"

\* C4 as stated: a buffer that holds a token matching no lexical class never
\* decodes to a tree.
C4_UnknownTokenAlwaysFails ==
    (phase = "run" /\ \E i \in 1..Len(pieces) : IsUnknownPiece(pieces[i]))
    => dec.result.kind # "tree"

\* C4 as amended: every token next() extracts during the decode and that
\* matches no lexical class ends the decode in an error at that point, with
\* no tree returned.  (Bytes the decoder never extracts as a token are not
\* examined: those after the DICT_END that ends the root dict, and the one
\* byte skipped behind a String literal.)
C4_ExtractedUnknownTokenFails ==
    [][(phase = "run" /\ dec.result = NoResult
        /\ dec'.last.token # <<>> /\ MatchesNoClass(dec'.last.token))
       => (dec'.result.kind = "error" /\ dec'.stack = dec.stack)]_vars

\* "/a 1 @": the decode of a buffer with an unknown token ended in an error.
C4_Witness ==
    /\ phase = "run"
    /\ pieces = <<6, 8, 10>>
    /\ dec.last.token = Unknown
    /\ dec.result = ErrorResult("UnknownToken")

NoEmptyToken(toks) == \A i \in 1..Len(toks) : toks[i][1] # <<>>

ClosePos(d) ==
    LET I == {j \in 2..Len(d) : d[j] = ")" /\ d[j - 1] # "\\"}
    IN  IF I = {} THEN 0 ELSE Min(I)

\* C9 as stated: when the buffer starts with the String marker, next()
\* yields the bytes up to and including the first ")" not preceded by a
\* backslash and leaves exactly the bytes that follow that ")".
C9_StringScanConsumesNoMore ==
    [][(phase = "run" /\ dec.result = NoResult
        /\ StartsWith(dec.data, UTF16_START) /\ ClosePos(dec.data) > 0)
       => /\ dec'.last.token = SubSeq(dec.data, 1, ClosePos(dec.data))
          /\ dec'.data = Drop(dec.data, ClosePos(dec.data))]_vars

(***************************************************************************)
(* Encoding a tree.  The root Dict is built through the mutation surface   *)
(* (item assignment keyed by plain strings, List.append), written with     *)
(* Dict.write or EngineData2.write, read back with frombytes and written   *)
(* again.                                                                  *)
(***************************************************************************)
MaxNodes == 3

KeyNames == {<<"a">>, <<"b">>}

CharA == <<"x00", "a">>

CharCloseParen == <<"x00", ")">>

CharBackslash == <<"x00", "\\">>

LeafPool ==
    <<String(<<CharA>>), String(<<CharA, CharCloseParen>>),
      String(<<CharBackslash>>), Bool(TRUE), Integer(0 - 12),
      Float(FALSE, <<"5">>, 0 - 1), Float(TRUE, <<"2", "5">>, 0 - 1),
      Float(FALSE, <<"2">>, 0), Float(FALSE, <<"1">>, 20),
      Property(<<"b">>), Tag(<<"(", "h", "w", "i", "d", ")">>)>>

RECURSIVE Nodes(_)
RECURSIVE NodesOfSeq(_)
Nodes(e) ==
    IF IsDict(e) THEN 1 + NodesOfSeq([i \in 1..Len(e.items) |-> e.items[i].value])
    ELSE IF IsList(e) THEN 1 + NodesOfSeq(e.items)
    ELSE 1

NodesOfSeq(es) == IF es = <<>> THEN 0 ELSE Nodes(Head(es)) + NodesOfSeq(Tail(es))

Lookup(its, key) == its[IndexOf(its, Wrap(key))].value

Has(its, key) == IndexOf(its, Wrap(key)) # 0

EncodeInit == tree = Dict(<<>>) /\ out = Idle /\ back = Idle /\ again = Idle

Building == out = Idle /\ Nodes(tree) <= MaxNodes

\* tree[k] = v
SetLeaf(k, v) ==
    /\ Building
    /\ tree' = Dict(BaseSetItem(tree.items, Wrap(Str(k)), v))
    /\ UNCHANGED <<out, back, again>>

\* tree[k] = Dict() or tree[k] = List()
SetEmpty(k, v) ==
    /\ Building
    /\ tree' = Dict(BaseSetItem(tree.items, Wrap(Str(k)), v))
    /\ UNCHANGED <<out, back, again>>

\* tree[k].append(v)
AppendLeaf(k, v) ==
    /\ Building
    /\ Has(tree.items, Str(k))
    /\ IsList(Lookup(tree.items, Str(k)))
    /\ tree' = Dict(BaseSetItem(tree.items, Wrap(Str(k)),
                        List(Append(Lookup(tree.items, Str(k)).items, v))))
    /\ UNCHANGED <<out, back, again>>

\* d = Dict(); d[k] = tree
WrapInDict(k) ==
    /\ Building
    /\ tree' = Dict(BaseSetItem(<<>>, Wrap(Str(k)), tree))
    /\ UNCHANGED <<out, back, again>>

\* l = List(); l.append(tree); d = Dict(); d[k] = l
WrapInList(k) ==
    /\ Building
    /\ tree' = Dict(BaseSetItem(<<>>, Wrap(Str(k)), List(<<tree>>)))
    /\ UNCHANGED <<out, back, again>>

WriteAs(variant, d) ==
    IF variant = "EngineData2" THEN EngineData2Write(d) ELSE DictWrite(d, 0, TRUE)

\* tree.write(fp) for a Dict or an EngineData2 root
Write(variant) ==
    /\ out = Idle
    /\ out' = [variant |-> variant, res |-> WriteAs(variant, tree)]
    /\ UNCHANGED <<tree, back, again>>

\* frombytes(fp.getvalue())
ReadBack ==
    /\ out # Idle
    /\ out.res.err = ""
    /\ back = Idle
    /\ back' = Decode(out.res.value)
    /\ UNCHANGED <<tree, out, again>>

\* the decoded tree, written with the same variant
WriteAgain ==
    /\ back # Idle
    /\ back.kind = "tree"
    /\ again = Idle
    /\ again' = [variant |-> out.variant, res |-> WriteAs(out.variant, back.value)]
    /\ UNCHANGED <<tree, out, back>>

DecodeIdle ==
    /\ pieces = <<>>
    /\ input = <<>>
    /\ input2 = <<>>
    /\ phase = "idle"
    /\ dec = Idle

InitEncode == EncodeInit /\ DecodeIdle /\ AccessIdle

NextEncode ==
    \/ \E k \in KeyNames, i \in 1..Len(LeafPool) :
          SetLeaf(k, LeafPool[i]) /\ UNCHANGED <<decodeVars, accessVars>>
    \/ \E k \in KeyNames, v \in {Dict(<<>>), List(<<>>)} :
          SetEmpty(k, v) /\ UNCHANGED <<decodeVars, accessVars>>
    \/ \E k \in KeyNames, i \in 1..Len(LeafPool) :
          AppendLeaf(k, LeafPool[i]) /\ UNCHANGED <<decodeVars, accessVars>>
    \/ \E k \in KeyNames : WrapInDict(k) /\ UNCHANGED <<decodeVars, accessVars>>
    \/ \E k \in KeyNames : WrapInList(k) /\ UNCHANGED <<decodeVars, accessVars>>
    \/ \E variant \in {"Dict", "EngineData2"} :
          Write(variant) /\ UNCHANGED <<decodeVars, accessVars>>
    \/ ReadBack /\ UNCHANGED <<decodeVars, accessVars>>
    \/ WriteAgain /\ UNCHANGED <<decodeVars, accessVars>>

SpecEncode == InitEncode /\ [][NextEncode]_vars

(***************************************************************************)
(* Properties of encoding.                                                 *)
(***************************************************************************)
RECURSIVE NonEmptyNodes(_)
NonEmptyNodes(e) ==
    IF IsDict(e)
    THEN e.items # <<>> /\ \A i \in 1..Len(e.items) : NonEmptyNodes(e.items[i].value)
    ELSE IF IsList(e)
    THEN e.items # <<>> /\ \A i \in 1..Len(e.items) : NonEmptyNodes(e.items[i])
    ELSE TRUE

\* C1 as stated: a tree of non-empty Dicts, non-empty Lists and leaves,
\* written with Dict.write and read with Dict.frombytes, comes back equal.
C1_RoundTrip ==
    (out # Idle /\ out.variant = "Dict" /\ NonEmptyNodes(tree))
    => /\ out.res.err = ""
       /\ back # Idle => back = TreeResult(tree)

\* C2 as stated: the bytes the encoder produced decode, and the decoded
\* tree encodes to the same bytes.
C2_ByteStable ==
    (out # Idle /\ out.res.err = "" /\ back # Idle)
    => /\ back.kind = "tree"
       /\ again # Idle => again = out

\* C3 as stated: write returns bytes for every well-formed tree.
C3_EncodeTotal == out # Idle => out.res.err = ""

StringRoundTrips(s) ==
    LET w == StringWrite(s.value)
        r == TokNext(w.value)
    IN  /\ w.err = ""
        /\ r.kind = "token"
        /\ r.type = "STRING"
        /\ r.token = w.value
        /\ StringFrombytes(r.token) = Ok(s)
        /\ StringWrite(StringFrombytes(r.token).value.value) = w

\* C5 as stated: for every text s the bytes String(s).write produces are
\* one STRING token, and String.frombytes of it gives s back.
C5_StringRoundTrip ==
    \A i \in 1..Len(tree.items) :
        tree.items[i].value.kind = "String" => StringRoundTrips(tree.items[i].value)

(***************************************************************************)
(* The access surface of a Dict: items holds its entries.  A key is passed *)
(* as a plain string or as a Property.                                     *)
(***************************************************************************)
Values == {Integer(1), Integer(2)}

Keys == {Str(k) : k \in KeyNames} \cup {Property(k) : k \in KeyNames}

Returned(op, key, v) == [op |-> op, key |-> key, err |-> "", value |-> v]

Raised(op, key, e) == [op |-> op, key |-> key, err |-> e, value |-> <<>>]

None == [kind |-> "None"]

\* d[key]
GetItem(key) ==
    /\ ret' = IF Has(items, key) THEN Returned("getitem", key, Lookup(items, key))
              ELSE Raised("getitem", key, "KeyError")
    /\ UNCHANGED items

\* d[key] = v
SetItem(key, v) ==
    /\ items' = BaseSetItem(items, Wrap(key), v)
    /\ ret' = Returned("setitem", key, None)

\* del d[key]: Dict defines __detitem__, so DictElement.__delitem__ gets the
\* key as it was passed.
DelItem(key) ==
    /\ IF IndexOf(items, key) = 0
       THEN items' = items /\ ret' = Raised("delitem", key, "KeyError")
       ELSE items' = BaseDelItem(items, key) /\ ret' = Returned("delitem", key, None)

\* key in d
ContainsKey(key) ==
    /\ ret' = Returned("contains", key, Has(items, key))
    /\ UNCHANGED items

\* d.get(key)
Get(key) ==
    /\ ret' = Returned("get", key, IF Has(items, key) THEN Lookup(items, key) ELSE None)
    /\ UNCHANGED items

InitAccess == AccessIdle /\ DecodeIdle /\ EncodeIdle

NextAccess ==
    \/ \E key \in Keys : GetItem(key) /\ UNCHANGED <<decodeVars, encodeVars>>
    \/ \E key \in Keys, v \in Values :
          SetItem(key, v) /\ UNCHANGED <<decodeVars, encodeVars>>
    \/ \E key \in Keys : DelItem(key) /\ UNCHANGED <<decodeVars, encodeVars>>
    \/ \E key \in Keys : ContainsKey(key) /\ UNCHANGED <<decodeVars, encodeVars>>
    \/ \E key \in Keys : Get(key) /\ UNCHANGED <<decodeVars, encodeVars>>

SpecAccess == InitAccess /\ [][NextAccess]_vars

Present(its, key) == \E i \in 1..Len(its) : its[i].key = Property(key.value)

\* C6 as stated: whichever way the key is passed, every operation acts on
\* the entry of Property(key): an insert is found by lookup and containment
\* check, a delete of a present key removes the entry without error, and
\* every stored key is a Property.
C6_AccessByPlainString ==
    [][/\ \A i \in 1..Len(items') : items'[i].key.kind = "Property"
       /\ ret'.op = "setitem" =>
             /\ Present(items', ret'.key)
             /\ Has(items', ret'.key)
             /\ Lookup(items', ret'.key) \in Values
       /\ (ret'.op = "delitem" /\ Present(items, ret'.key)) =>
             /\ ret'.err = ""
             /\ ~Present(items', ret'.key)
       /\ (ret'.op = "getitem" /\ Present(items, ret'.key)) => ret'.err = ""
       /\ ret'.op = "contains" => ret'.value = Present(items, ret'.key)]_vars

=============================================================================
